---- MODULE Spec2Model ----
(***************************************************************************)
(* Model of the Interface class of "find a way/interface.py": the grid     *)
(* editor and run controller of the A* demo.  One action per pygame event  *)
(* type handled by get_event, and one for the per-frame update.            *)
(*                                                                         *)
(* Python values are modelled as follows: None is the empty tuple, a cell  *)
(* and a pixel position are pairs <<x, y>>, the attribute Solver is the    *)
(* empty tuple (None) or a one-element tuple holding the solver's record.  *)
(* self.mouse and self.target are scratch attributes: every handler that   *)
(* reads them has called get_target just before (lines 113 and 193), so    *)
(* the pointer position is an input p of each action and not a variable.   *)
(* Rendering, fonts and the millisecond clock are not modelled.            *)
(***************************************************************************)
EXTENDS Integers, Sequences, FiniteSets, TLC

VARIABLES animate, piece_type, mode, start_cell, goal_cell, barriers,
          Solver, solution, add_barrier, del_barrier

vars == <<animate, piece_type, mode, start_cell, goal_cell, barriers,
          Solver, solution, add_barrier, del_barrier>>

(* ----------------------------- bounds ---------------------------------- *)
\* Number of interior grid columns (cells (1,1) .. (NCols,1)) the pointer visits.
NCols == 3
\* Largest number of evaluate() calls a search needs before it finishes.
MaxEval == 2

(* ------------------------- program constants --------------------------- *)
None == <<>>
options == <<"rook", "queen", "knight">>
cell_size == <<20, 20>>
Modes == {"START", "GOAL", "BARRIER", "RUN", "SOLVED", "FAILED"}
\* The text rectangles of render_text that left_button_clicked hit-tests.
HotZones == {"MOVE", "ANIM", "BARRIER", "ENTER", "RESET"}
NO_SOLUTION == <<"NO SOLUTION">>

\* The sets of text rectangles a pointer position is tried in: the sizes of
\* the rectangles are the font's business, so any two texts of the top row
\* (y = 1) may overlap; MOVE, in the bottom row (y = 263), overlaps none.
ZoneSets ==
    {z \in SUBSET HotZones :
        Cardinality(z) <= 2 /\ ("MOVE" \in z => z = {"MOVE"})}

\* pg.Rect(20,20,400,240).collidepoint(p)
InGridRect(p) ==
    /\ 20 <= p[1] /\ p[1] < 20 + 400
    /\ 20 <= p[2] /\ p[2] < 20 + 240

\* Pixel positions the pointer takes: one over the border cell (0,0), where
\* the text hot-zones are, and the centres of the cells (1,1) .. (NCols,1).
MousePts == {<<10, 10>>} \cup {<<20 * c + 10, 30>> : c \in 1..NCols}

\* get_target: the cell under a pixel position.
get_target(p) == <<p[1] \div cell_size[1], p[2] \div cell_size[2]>>

\* setup_barriers: the two-cell-thick border.
setup_barriers ==
    {<<i, j>> : i \in -1..22, j \in {-1, 0, 13, 14}}
        \cup {<<i, j>> : i \in {-1, 0, 21, 22}, j \in -1..14}

\* Python truthiness of an attribute that is None or a (non-empty) tuple.
Truthy(x) == x # None

(* ------------------- the external solver (solver.Star) ----------------- *)
\* The module solver is an external collaborator.  Of a Star object this
\* class reads only the attribute solution (and closed_set, for drawing), so
\* its record holds solution and n, the units of work done so far; the cells
\* of a path are the solver's business and a found path is the list PATH.
PATH == <<"path">>

\* solver.Star(start, goal, piece_type, barriers): a new search, solution
\* pending (the empty list), no unit of work done yet.
Star(start, goal, piece, walls) == [n |-> 0, solution |-> <<>>]

\* Star.evaluate(): one unit of work.  The set of solver states it can leave:
\* a finished search is left alone (solution is set exactly once); a pending
\* one does one more unit and either stays pending, reports a path, or
\* reports the no-path sentinel; after MaxEval units it has finished.
evaluate(S) ==
    IF S.solution # <<>>
    THEN {S}
    ELSE {[S EXCEPT !.n = S.n + 1, !.solution = r] :
            r \in (IF S.n + 1 < MaxEval THEN {<<>>} ELSE {})
                    \cup {PATH, NO_SOLUTION}}

\* Lines 211-212 with "if" for "while": evaluate() is called once.
EvaluateLoop_single_call(S) == evaluate(S)

\* while not self.Solver.solution: self.Solver.evaluate()
RECURSIVE EvaluateLoop(_)
EvaluateLoop(S) ==
    IF S.solution # <<>>
    THEN {S}
    ELSE UNION {EvaluateLoop(T) : T \in evaluate(S)}

(* ------------------------------ Init ----------------------------------- *)
\* __init__: animate off, rook, then reset() (full).
Init ==
    /\ animate = FALSE
    /\ piece_type = "rook"
    /\ mode = "START"
    /\ start_cell = None
    /\ goal_cell = None
    /\ barriers = setup_barriers
    /\ add_barrier = FALSE
    /\ del_barrier = FALSE
    /\ Solver = None
    /\ solution = <<>>

(* ----------------------------- helpers --------------------------------- *)
\* reset that rebuilds the grid whatever its argument, as if the partial
\* reset cleared start, goal and barriers too.
reset_always_full(full) ==
    /\ mode' = IF full THEN "START" ELSE "BARRIER"
    /\ start_cell' = None
    /\ goal_cell' = None
    /\ barriers' = setup_barriers
    /\ add_barrier' = FALSE
    /\ del_barrier' = FALSE
    /\ Solver' = None
    /\ solution' = <<>>

\* reset whose full branch forgets line 63 and keeps the stored solution.
reset_keeps_solution(full) ==
    IF full
    THEN /\ mode' = "START"
         /\ start_cell' = None
         /\ goal_cell' = None
         /\ barriers' = setup_barriers
         /\ add_barrier' = FALSE
         /\ del_barrier' = FALSE
         /\ Solver' = None
         /\ UNCHANGED solution
    ELSE /\ Solver' = None
         /\ mode' = "BARRIER"
         /\ UNCHANGED <<start_cell, goal_cell, barriers, add_barrier,
                        del_barrier, solution>>

\* reset(full): a full reset rebuilds the grid; a partial one only drops the
\* solver and returns to BARRIER.
reset(full) ==
    IF full
    THEN /\ mode' = "START"
         /\ start_cell' = None
         /\ goal_cell' = None
         /\ barriers' = setup_barriers
         /\ add_barrier' = FALSE
         /\ del_barrier' = FALSE
         /\ Solver' = None
         /\ solution' = <<>>
    ELSE /\ Solver' = None
         /\ mode' = "BARRIER"
         /\ UNCHANGED <<start_cell, goal_cell, barriers, add_barrier,
                        del_barrier, solution>>

\* toggle_animate without its test of the mode (line 179).
toggle_animate_ungated ==
    /\ animate' = ~animate
    /\ UNCHANGED <<piece_type, mode, start_cell, goal_cell, barriers, Solver,
                   solution, add_barrier, del_barrier>>

\* toggle_animate
toggle_animate ==
    /\ animate' = IF mode # "RUN" THEN ~animate ELSE animate
    /\ UNCHANGED <<piece_type, mode, start_cell, goal_cell, barriers, Solver,
                   solution, add_barrier, del_barrier>>

\* options.index(piece_type), zero-based.
OptionIndex(p) == (CHOOSE i \in 1..Len(options) : options[i] = p) - 1

\* The next index that stops at the last option, as if line 186 had no
\* "% len(self.options)" and the index were clamped.
next_index_clamped(p) ==
    IF OptionIndex(p) + 1 < Len(options) THEN OptionIndex(p) + 1
                                         ELSE OptionIndex(p)

\* (self.options.index(self.piece_type)+1)%len(self.options), for the piece
\* type p.
next_index(p) == (OptionIndex(p) + 1) % Len(options)

\* toggle_piece(ind): ind is None (<<>>) or a one-tuple <<i>> holding the
\* zero-based index; "not ind" is true of None and of 0.
toggle_piece(ind) ==
    /\ piece_type' =
         IF mode # "RUN"
         THEN LET i == IF ind = None \/ ind = <<0>>
                       THEN next_index(piece_type)
                       ELSE ind[1]
              IN  options[i + 1]
         ELSE piece_type
    /\ UNCHANGED <<animate, mode, start_cell, goal_cell, barriers, Solver,
                   solution, add_barrier, del_barrier>>

\* The placement test of lines 130 and 134, that drops its barrier half.
PlacementAllowed_on_barrier(t, other) == t # other

\* The placement test of lines 130 and 134: the target is not the other
\* special cell and is not a barrier.
PlacementAllowed(t, other) == t # other /\ t \notin barriers

\* left_button_clicked, with self.mouse = p; zones is the set of text
\* rectangles (keys of self.rendered) that contain p.
left_button_clicked(p, zones) ==
    LET t == get_target(p) IN
    IF InGridRect(p) THEN
        IF mode = "START" THEN
            IF PlacementAllowed(t, goal_cell)
            THEN /\ start_cell' = t
                 /\ mode' = IF Truthy(goal_cell) THEN "BARRIER" ELSE "GOAL"
                 /\ UNCHANGED <<animate, piece_type, goal_cell, barriers,
                                Solver, solution, add_barrier, del_barrier>>
            ELSE UNCHANGED <<animate, piece_type, mode, start_cell, goal_cell,
                             barriers, Solver, solution, add_barrier,
                             del_barrier>>
        ELSE IF mode = "GOAL" THEN
            IF PlacementAllowed(t, start_cell)
            THEN /\ goal_cell' = t
                 /\ mode' = "BARRIER"
                 /\ UNCHANGED <<animate, piece_type, start_cell, barriers,
                                Solver, solution, add_barrier, del_barrier>>
            ELSE UNCHANGED <<animate, piece_type, mode, start_cell, goal_cell,
                             barriers, Solver, solution, add_barrier,
                             del_barrier>>
        ELSE IF mode = "BARRIER" THEN
            /\ add_barrier' = TRUE
            /\ UNCHANGED <<animate, piece_type, mode, start_cell, goal_cell,
                           barriers, Solver, solution, del_barrier>>
        ELSE UNCHANGED <<animate, piece_type, mode, start_cell, goal_cell,
                         barriers, Solver, solution, add_barrier, del_barrier>>
    ELSE IF "MOVE" \in zones THEN toggle_piece(None)
    ELSE IF "ANIM" \in zones THEN toggle_animate
    ELSE IF mode = "BARRIER" /\ "BARRIER" \in zones THEN
        /\ mode' = "RUN"
        /\ UNCHANGED <<animate, piece_type, start_cell, goal_cell, barriers,
                       Solver, solution, add_barrier, del_barrier>>
    ELSE IF mode \in {"SOLVED", "FAILED"} THEN
        IF "ENTER" \in zones THEN
            /\ reset(TRUE)
            /\ UNCHANGED <<animate, piece_type>>
        ELSE IF "RESET" \in zones THEN
            /\ reset(FALSE)
            /\ UNCHANGED <<animate, piece_type>>
        ELSE UNCHANGED <<animate, piece_type, mode, start_cell, goal_cell,
                         barriers, Solver, solution, add_barrier, del_barrier>>
    ELSE UNCHANGED <<animate, piece_type, mode, start_cell, goal_cell,
                     barriers, Solver, solution, add_barrier, del_barrier>>

\* right_button_clicked that clears a special cell only while the grid is
\* being set up (modes START and GOAL), as if line 153 read
\* self.mode in ("START","GOAL").
right_button_clicked_setup_only(t) ==
    IF mode \in {"START", "GOAL"} /\ t = start_cell THEN
        /\ start_cell' = None
        /\ mode' = "START"
        /\ UNCHANGED <<animate, piece_type, goal_cell, barriers, Solver,
                       solution, add_barrier, del_barrier>>
    ELSE IF mode \in {"START", "GOAL"} /\ t = goal_cell THEN
        /\ goal_cell' = None
        /\ mode' = IF Truthy(start_cell) THEN "GOAL" ELSE "START"
        /\ UNCHANGED <<animate, piece_type, start_cell, barriers, Solver,
                       solution, add_barrier, del_barrier>>
    ELSE IF mode = "BARRIER" THEN
        /\ del_barrier' = TRUE
        /\ UNCHANGED <<animate, piece_type, mode, start_cell, goal_cell,
                       barriers, Solver, solution, add_barrier>>
    ELSE UNCHANGED <<animate, piece_type, mode, start_cell, goal_cell,
                     barriers, Solver, solution, add_barrier, del_barrier>>

\* right_button_clicked that always demotes to GOAL when the goal is
\* cleared, line 159 without its test of start_cell.
right_button_clicked_goal_to_GOAL(t) ==
    IF mode # "RUN" THEN
        IF t = start_cell THEN
            /\ start_cell' = None
            /\ mode' = "START"
            /\ UNCHANGED <<animate, piece_type, goal_cell, barriers, Solver,
                           solution, add_barrier, del_barrier>>
        ELSE IF t = goal_cell THEN
            /\ goal_cell' = None
            /\ mode' = "GOAL"
            /\ UNCHANGED <<animate, piece_type, start_cell, barriers, Solver,
                           solution, add_barrier, del_barrier>>
        ELSE IF mode = "BARRIER" THEN
            /\ del_barrier' = TRUE
            /\ UNCHANGED <<animate, piece_type, mode, start_cell, goal_cell,
                           barriers, Solver, solution, add_barrier>>
        ELSE UNCHANGED <<animate, piece_type, mode, start_cell, goal_cell,
                         barriers, Solver, solution, add_barrier, del_barrier>>
    ELSE UNCHANGED <<animate, piece_type, mode, start_cell, goal_cell,
                     barriers, Solver, solution, add_barrier, del_barrier>>

\* right_button_clicked, with self.target = t.
right_button_clicked(t) ==
    IF mode # "RUN" THEN
        IF t = start_cell THEN
            /\ start_cell' = None
            /\ mode' = "START"
            /\ UNCHANGED <<animate, piece_type, goal_cell, barriers, Solver,
                           solution, add_barrier, del_barrier>>
        ELSE IF t = goal_cell THEN
            /\ goal_cell' = None
            /\ mode' = IF Truthy(start_cell) THEN "GOAL" ELSE "START"
            /\ UNCHANGED <<animate, piece_type, start_cell, barriers, Solver,
                           solution, add_barrier, del_barrier>>
        ELSE IF mode = "BARRIER" THEN
            /\ del_barrier' = TRUE
            /\ UNCHANGED <<animate, piece_type, mode, start_cell, goal_cell,
                           barriers, Solver, solution, add_barrier>>
        ELSE UNCHANGED <<animate, piece_type, mode, start_cell, goal_cell,
                         barriers, Solver, solution, add_barrier, del_barrier>>
    ELSE UNCHANGED <<animate, piece_type, mode, start_cell, goal_cell,
                     barriers, Solver, solution, add_barrier, del_barrier>>

\* The keys hotkeys tells apart, and one key it ignores.
Keys == {"K_1", "K_2", "K_3", "K_d", "K_SPACE", "K_RETURN", "K_i", "K_a"}

\* int(event.unicode) of a digit key.
DigitOf(key) == CASE key = "K_1" -> 1 [] key = "K_2" -> 2 [] key = "K_3" -> 3

\* hotkeys whose space key starts a run in every mode, as if line 169 had
\* lost its test of the mode.
hotkeys_space_anywhere(key) ==
    IF key \in {"K_1", "K_2", "K_3"} THEN toggle_piece(<<DigitOf(key) - 1>>)
    ELSE IF key = "K_d" THEN toggle_animate
    ELSE IF key = "K_SPACE" THEN
        /\ mode' = "RUN"
        /\ UNCHANGED <<animate, piece_type, start_cell, goal_cell, barriers,
                       Solver, solution, add_barrier, del_barrier>>
    ELSE IF mode \in {"SOLVED", "FAILED"} THEN
        IF key = "K_RETURN" THEN
            /\ reset(TRUE)
            /\ UNCHANGED <<animate, piece_type>>
        ELSE IF key = "K_i" THEN
            /\ reset(FALSE)
            /\ UNCHANGED <<animate, piece_type>>
        ELSE UNCHANGED <<animate, piece_type, mode, start_cell, goal_cell,
                         barriers, Solver, solution, add_barrier, del_barrier>>
    ELSE UNCHANGED <<animate, piece_type, mode, start_cell, goal_cell,
                     barriers, Solver, solution, add_barrier, del_barrier>>

\* hotkeys whose Return and i are accepted in every mode, as if line 171
\* were a plain else.
hotkeys_reset_ungated(key) ==
    IF key \in {"K_1", "K_2", "K_3"} THEN toggle_piece(<<DigitOf(key) - 1>>)
    ELSE IF key = "K_d" THEN toggle_animate
    ELSE IF mode = "BARRIER" /\ key = "K_SPACE" THEN
        /\ mode' = "RUN"
        /\ UNCHANGED <<animate, piece_type, start_cell, goal_cell, barriers,
                       Solver, solution, add_barrier, del_barrier>>
    ELSE IF TRUE THEN
        IF key = "K_RETURN" THEN
            /\ reset(TRUE)
            /\ UNCHANGED <<animate, piece_type>>
        ELSE IF key = "K_i" THEN
            /\ reset(FALSE)
            /\ UNCHANGED <<animate, piece_type>>
        ELSE UNCHANGED <<animate, piece_type, mode, start_cell, goal_cell,
                         barriers, Solver, solution, add_barrier, del_barrier>>
    ELSE UNCHANGED <<animate, piece_type, mode, start_cell, goal_cell,
                     barriers, Solver, solution, add_barrier, del_barrier>>

\* hotkeys(event), with event.key = key.
hotkeys(key) ==
    IF key \in {"K_1", "K_2", "K_3"} THEN toggle_piece(<<DigitOf(key) - 1>>)
    ELSE IF key = "K_d" THEN toggle_animate
    ELSE IF mode = "BARRIER" /\ key = "K_SPACE" THEN
        /\ mode' = "RUN"
        /\ UNCHANGED <<animate, piece_type, start_cell, goal_cell, barriers,
                       Solver, solution, add_barrier, del_barrier>>
    ELSE IF mode \in {"SOLVED", "FAILED"} THEN
        IF key = "K_RETURN" THEN
            /\ reset(TRUE)
            /\ UNCHANGED <<animate, piece_type>>
        ELSE IF key = "K_i" THEN
            /\ reset(FALSE)
            /\ UNCHANGED <<animate, piece_type>>
        ELSE UNCHANGED <<animate, piece_type, mode, start_cell, goal_cell,
                         barriers, Solver, solution, add_barrier, del_barrier>>
    ELSE UNCHANGED <<animate, piece_type, mode, start_cell, goal_cell,
                     barriers, Solver, solution, add_barrier, del_barrier>>

\* add_barriers as it would be without the test of line 195: the cell of the
\* start or of the goal is painted and erased like any other.
add_barriers_over_endpoints(p) ==
    LET t == get_target(p) IN
    IF mode = "BARRIER" /\ InGridRect(p)
    THEN IF add_barrier THEN barriers \cup {t}
         ELSE IF del_barrier THEN barriers \ {t}
         ELSE barriers
    ELSE barriers

\* add_barriers as it would be without the test of line 194: the pointer
\* paints and erases outside the grid area too.
add_barriers_any_pixel(p) ==
    LET t == get_target(p) IN
    IF mode = "BARRIER" /\ t \notin {start_cell, goal_cell}
    THEN IF add_barrier THEN barriers \cup {t}
         ELSE IF del_barrier THEN barriers \ {t}
         ELSE barriers
    ELSE barriers

\* add_barriers as it would be without the test of line 192: an armed drag
\* paints and erases in every mode.
add_barriers_any_mode(p) ==
    LET t == get_target(p) IN
    IF InGridRect(p) /\ t \notin {start_cell, goal_cell}
    THEN IF add_barrier THEN barriers \cup {t}
         ELSE IF del_barrier THEN barriers \ {t}
         ELSE barriers
    ELSE barriers

\* add_barriers that tests del_barrier before add_barrier, lines 196 and
\* 198 swapped.
add_barriers_erase_first(p) ==
    LET t == get_target(p) IN
    IF mode = "BARRIER" /\ InGridRect(p) /\ t \notin {start_cell, goal_cell}
    THEN IF del_barrier THEN barriers \ {t}
         ELSE IF add_barrier THEN barriers \cup {t}
         ELSE barriers
    ELSE barriers

\* add_barriers, with p the pointer position its get_target reads: the set
\* of barriers it leaves.
add_barriers(p) ==
    LET t == get_target(p) IN
    IF mode = "BARRIER" /\ InGridRect(p) /\ t \notin {start_cell, goal_cell}
    THEN IF add_barrier THEN barriers \cup {t}
         ELSE IF del_barrier THEN barriers \ {t}
         ELSE barriers
    ELSE barriers

\* found_solution that stores the path but never leaves mode RUN, as if
\* lines 222 and 225 were missing.
found_solution_keeps_mode(S) ==
    /\ solution' = IF S.solution = NO_SOLUTION THEN solution ELSE S.solution
    /\ UNCHANGED mode

\* found_solution that takes every finished search for a found path, as if
\* the test of line 221 were missing.
found_solution_always_solved(S) ==
    /\ solution' = S.solution
    /\ mode' = "SOLVED"

\* found_solution, for the solver record S.
found_solution(S) ==
    IF S.solution = NO_SOLUTION
    THEN /\ mode' = "FAILED"
         /\ UNCHANGED solution
    ELSE /\ solution' = S.solution
         /\ mode' = "SOLVED"

(* ----------------------------- actions --------------------------------- *)
\* get_event, MOUSEBUTTONDOWN at pointer position p: hit = <<left pressed,
\* right pressed>> is what pg.mouse.get_pressed() reports.
MouseButtonDown(p, hit, zones) ==
    IF hit[1] THEN left_button_clicked(p, zones)
    ELSE IF hit[2] THEN right_button_clicked(get_target(p))
    ELSE UNCHANGED vars

\* MOUSEBUTTONUP that forgets line 122: the erasing flag stays armed.
MouseButtonUp_keeps_erasing ==
    /\ add_barrier' = FALSE
    /\ UNCHANGED <<animate, piece_type, mode, start_cell, goal_cell, barriers,
                   Solver, solution, del_barrier>>

\* get_event, MOUSEBUTTONUP.
MouseButtonUp ==
    /\ add_barrier' = FALSE
    /\ del_barrier' = FALSE
    /\ UNCHANGED <<animate, piece_type, mode, start_cell, goal_cell, barriers,
                   Solver, solution>>

\* get_event, KEYDOWN.
KeyDown(key) == hotkeys(key)

\* update that runs the search to its end in every frame, as if line 208
\* did not test self.animate.
update_never_animated(p) ==
    /\ barriers' = add_barriers(p)
    /\ IF mode = "RUN"
       THEN \E S \in (LET S0 == IF Solver = None
                                THEN Star(start_cell, goal_cell, piece_type,
                                          barriers)
                                ELSE Solver[1]
                      IN  EvaluateLoop(S0)) :
                /\ Solver' = <<S>>
                /\ IF S.solution # <<>>
                   THEN found_solution(S)
                   ELSE UNCHANGED <<mode, solution>>
       ELSE UNCHANGED <<mode, Solver, solution>>
    /\ UNCHANGED <<animate, piece_type, start_cell, goal_cell, add_barrier,
                   del_barrier>>

\* update: one frame tick, with p the pointer position of that frame.
update(p) ==
    /\ barriers' = add_barriers(p)
    /\ IF mode = "RUN"
       THEN \E S \in (LET S0 == IF Solver = None
                                THEN Star(start_cell, goal_cell, piece_type,
                                          barriers)
                                ELSE Solver[1]
                      IN  IF animate THEN evaluate(S0) ELSE EvaluateLoop(S0)) :
                /\ Solver' = <<S>>
                /\ IF S.solution # <<>>
                   THEN found_solution(S)
                   ELSE UNCHANGED <<mode, solution>>
       ELSE UNCHANGED <<mode, Solver, solution>>
    /\ UNCHANGED <<animate, piece_type, start_cell, goal_cell, add_barrier,
                   del_barrier>>

\* The MOUSEBUTTONDOWN inputs that the handlers can tell apart: the text
\* rectangles matter only to a left click outside the grid area, and the
\* position only when a button is reported pressed.
MouseDownInputs ==
    {<<p, hit, z>> \in MousePts \X (BOOLEAN \X BOOLEAN) \X ZoneSets :
        /\ (~hit[1] \/ InGridRect(p)) => z = {}
        /\ (~hit[1] /\ ~hit[2]) => p = <<10, 10>>}

Next ==
    \/ \E i \in MouseDownInputs : MouseButtonDown(i[1], i[2], i[3])
    \/ MouseButtonUp
    \/ \E key \in Keys : KeyDown(key)
    \/ \E p \in MousePts : update(p)

Spec == Init /\ [][Next]_vars

\* The main loop calls update once per frame for as long as the program
\* runs, so a frame tick that would change the state is not put off for ever.
FairSpec == Spec /\ WF_vars(\E p \in MousePts : update(p))

(* ========================== the claims ================================= *)

\* C1: in every reachable state, if start and goal are both defined they
\* differ, and a defined start cell or goal cell is not a barrier.
C1_EndpointsDistinctAndFree ==
    /\ (start_cell # None /\ goal_cell # None) => start_cell # goal_cell
    /\ start_cell # None => start_cell \notin barriers
    /\ goal_cell # None => goal_cell \notin barriers

\* A paint drag is armed with both endpoints placed and an interior cell
\* already painted.
C1_Witness ==
    /\ mode = "BARRIER" /\ add_barrier
    /\ start_cell # None /\ goal_cell # None
    /\ barriers # setup_barriers

\* C2: in every reachable state every border cell made by setup_barriers is
\* a barrier, whatever was painted, erased or reset.
C2_BorderKept == setup_barriers \subseteq barriers

\* An erase drag is armed (and no paint drag) while an interior cell is
\* painted: the frames that follow erase under the pointer, which may rest on
\* the border cell (0,0).
C2_Witness ==
    /\ mode = "BARRIER" /\ del_barrier /\ ~add_barrier
    /\ barriers # setup_barriers
    /\ <<0, 0>> \in barriers

(* ------------------ the steps the claims speak about ------------------- *)
\* A MOUSEBUTTONDOWN with the left button pressed, pointer at p, inside the
\* text rectangles z.
LeftClickAt(p, z) ==
    \E hit \in {<<TRUE, FALSE>>, <<TRUE, TRUE>>} : MouseButtonDown(p, hit, z)

\* A MOUSEBUTTONDOWN with only the right button pressed, pointer at p (the
\* text rectangles play no part in a right click).
RightClickAt(p) == MouseButtonDown(p, <<FALSE, TRUE>>, {})

\* A left click on a cell of the grid area.
PlacementClick == \E p \in MousePts : InGridRect(p) /\ LeftClickAt(p, {})

\* A left click outside the grid area with the pointer inside the text k.
ZoneClick(k) ==
    \E p \in MousePts, z \in ZoneSets :
        ~InGridRect(p) /\ k \in z /\ LeftClickAt(p, z)

RunTrigger == KeyDown("K_SPACE") \/ ZoneClick("BARRIER")
FullResetTrigger == KeyDown("K_RETURN") \/ ZoneClick("ENTER")
PartialResetTrigger == KeyDown("K_i") \/ ZoneClick("RESET")

\* A right click whose target is the cell c.
SecondaryClickOn(c) ==
    \E p \in MousePts : get_target(p) = c /\ RightClickAt(p)

\* Any event get_event handles.
AnyEvent ==
    \/ \E p \in MousePts, hit \in BOOLEAN \X BOOLEAN, z \in ZoneSets :
          MouseButtonDown(p, hit, z)
    \/ MouseButtonUp
    \/ \E key \in Keys : KeyDown(key)

FrameTick == \E p \in MousePts : update(p)

\* C3: every change of mode is a transition of the table: START to GOAL or
\* BARRIER and GOAL to BARRIER by a valid placement, BARRIER to RUN by the run
\* trigger, RUN to SOLVED or FAILED by a frame tick that finds the solver
\* finished, SOLVED/FAILED to START by the full reset or to BARRIER by the
\* partial reset, and a demotion to START or GOAL by a right click on the
\* start or goal cell outside RUN.
C3_ModeTransitions ==
    [][mode' # mode =>
        \/ /\ mode = "START" /\ PlacementClick
           /\ start_cell' # None
           /\ mode' = IF goal_cell = None THEN "GOAL" ELSE "BARRIER"
        \/ /\ mode = "GOAL" /\ PlacementClick
           /\ goal_cell' # None
           /\ mode' = "BARRIER"
        \/ mode = "BARRIER" /\ RunTrigger /\ mode' = "RUN"
        \/ /\ mode = "RUN" /\ FrameTick
           /\ mode' \in {"SOLVED", "FAILED"}
           /\ Solver' # None /\ Solver'[1].solution # <<>>
        \/ mode \in {"SOLVED", "FAILED"} /\ FullResetTrigger /\ mode' = "START"
        \/ /\ mode \in {"SOLVED", "FAILED"} /\ PartialResetTrigger
           /\ mode' = "BARRIER"
        \/ /\ mode # "RUN" /\ start_cell # None /\ SecondaryClickOn(start_cell)
           /\ start_cell' = None /\ mode' = "START"
        \/ /\ mode # "RUN" /\ goal_cell # None /\ SecondaryClickOn(goal_cell)
           /\ goal_cell' = None /\ mode' \in {"START", "GOAL"}
    ]_vars

\* A run has ended in FAILED: the table has been walked from START through
\* GOAL, BARRIER and RUN.
C3_Witness == mode = "FAILED" /\ Solver # None /\ Solver[1].solution = NO_SOLUTION

\* C4: a left click on a grid cell c in mode START sets start = c and mode
\* GOAL (no goal yet) or BARRIER (goal set) when c is not the goal and not a
\* barrier; in mode GOAL it sets goal = c and mode BARRIER when c is not the
\* start and not a barrier; otherwise start, goal, barriers and mode are
\* unchanged.
C4_Placement ==
    [][\A p \in MousePts :
        (mode \in {"START", "GOAL"} /\ InGridRect(p) /\ LeftClickAt(p, {})) =>
            LET c == get_target(p) IN
            /\ mode = "START" =>
                 IF c # goal_cell /\ c \notin barriers
                 THEN /\ start_cell' = c
                      /\ mode' = IF goal_cell = None THEN "GOAL" ELSE "BARRIER"
                      /\ UNCHANGED <<goal_cell, barriers>>
                 ELSE UNCHANGED <<start_cell, goal_cell, barriers, mode>>
            /\ mode = "GOAL" =>
                 IF c # start_cell /\ c \notin barriers
                 THEN /\ goal_cell' = c
                      /\ mode' = "BARRIER"
                      /\ UNCHANGED <<start_cell, barriers>>
                 ELSE UNCHANGED <<start_cell, goal_cell, barriers, mode>>
    ]_vars

\* Mode START with the goal placed and an interior cell painted: a click
\* there is refused on the goal and on the painted cell and accepted on the
\* third cell.
C4_Witness ==
    /\ mode = "START" /\ start_cell = None /\ goal_cell # None
    /\ barriers # setup_barriers

\* C5: outside RUN a right click whose target is the start cell clears start
\* and sets mode START; one whose target is the goal cell clears goal and
\* sets mode GOAL if a start is defined, else START.
C5_SecondaryClears ==
    [][\A p \in MousePts :
        (mode # "RUN" /\ RightClickAt(p)) =>
            LET t == get_target(p) IN
            /\ t = start_cell => (start_cell' = None /\ mode' = "START")
            /\ t = goal_cell =>
                 /\ goal_cell' = None
                 /\ mode' = IF start_cell # None THEN "GOAL" ELSE "START"
    ]_vars

\* Mode START with the goal still placed and a solution stored: the start
\* was cleared by a right click after a run.
C5_Witness ==
    /\ mode = "START" /\ start_cell = None /\ goal_cell # None
    /\ solution = PATH

\* C6: while mode = RUN no pointer or key event changes mode, start, goal,
\* barriers, piece type or the animate flag, and the only step that leaves
\* RUN is a frame tick that ends with the solver's solution non-pending.
C6_RunIsFrozen ==
    [][mode = "RUN" =>
        /\ \/ UNCHANGED <<mode, start_cell, goal_cell, barriers, piece_type,
                         animate>>
           \/ ~AnyEvent
        /\ mode' # "RUN" =>
             /\ FrameTick
             /\ Solver' # None /\ Solver'[1].solution # <<>>
    ]_vars

\* Mid-run: mode RUN with a solver that has worked and is still pending.
C6_Witness ==
    /\ mode = "RUN" /\ Solver # None
    /\ Solver[1].n > 0 /\ Solver[1].solution = <<>>

\* The steps that perform a reset: the key, or a left click outside the grid
\* on the reset text and on no text that left_button_clicked tries before it.
FullResetStep ==
    \/ KeyDown("K_RETURN")
    \/ \E p \in MousePts, z \in ZoneSets :
          /\ ~InGridRect(p) /\ "ENTER" \in z /\ z \cap {"MOVE", "ANIM"} = {}
          /\ LeftClickAt(p, z)
PartialResetStep ==
    \/ KeyDown("K_i")
    \/ \E p \in MousePts, z \in ZoneSets :
          /\ ~InGridRect(p) /\ "RESET" \in z
          /\ z \cap {"MOVE", "ANIM", "ENTER"} = {}
          /\ LeftClickAt(p, z)

\* C7 as stated: in SOLVED or FAILED every step that is not a full or partial
\* reset trigger leaves mode, start, goal and barriers unchanged.
C7_OnlyResetsAccepted ==
    [][(mode \in {"SOLVED", "FAILED"}) =>
        (\/ UNCHANGED <<mode, start_cell, goal_cell, barriers>>
         \/ FullResetTrigger
         \/ PartialResetTrigger)
    ]_vars

\* C7 amended: in SOLVED or FAILED every step that is neither a reset trigger
\* nor a right click on the start or goal cell leaves mode, start, goal and
\* barriers unchanged.
C7_OnlyResetsAndClearsAccepted ==
    [][(mode \in {"SOLVED", "FAILED"}) =>
        (\/ UNCHANGED <<mode, start_cell, goal_cell, barriers>>
         \/ FullResetTrigger
         \/ PartialResetTrigger
         \/ SecondaryClickOn(start_cell)
         \/ SecondaryClickOn(goal_cell))
    ]_vars

\* A finished run with both drags still armed: the frames and events that
\* follow find everything a handler could act on.
C7_Witness == mode = "SOLVED" /\ add_barrier /\ del_barrier

\* C8 as stated: a partial reset from SOLVED or FAILED leaves border-only
\* barriers, no start, no goal, mode BARRIER and no solver.
C8_PartialResetClearsGrid ==
    [][(mode \in {"SOLVED", "FAILED"} /\ PartialResetStep) =>
        /\ barriers' = setup_barriers
        /\ start_cell' = None /\ goal_cell' = None
        /\ mode' = "BARRIER"
        /\ Solver' = None
    ]_vars

\* C8 amended: a partial reset from SOLVED or FAILED sets mode BARRIER and
\* drops the solver, and leaves barriers, start, goal, the stored solution,
\* the drag flags, the piece type and the animate flag as they were.
C8_PartialResetKeepsGrid ==
    [][(mode \in {"SOLVED", "FAILED"} /\ PartialResetStep) =>
        /\ mode' = "BARRIER"
        /\ Solver' = None
        /\ UNCHANGED <<barriers, start_cell, goal_cell, solution, add_barrier,
                       del_barrier, piece_type, animate>>
    ]_vars

\* Back in BARRIER after a solved run: no solver, the solution of that run
\* still stored, start, goal and the painted cells still there.
C8_Witness ==
    /\ mode = "BARRIER" /\ Solver = None /\ solution = PATH
    /\ start_cell # None /\ goal_cell # None
    /\ barriers # setup_barriers

\* C9: a full reset, accepted in SOLVED and FAILED, leaves mode START, the
\* border-only barriers, no start, no goal, no solver, an empty stored
\* solution and both drag flags disarmed; in every other mode the Enter key
\* and a click on the restart text alone change nothing.
C9_FullReset ==
    [][/\ (mode \in {"SOLVED", "FAILED"} /\ FullResetStep) =>
            /\ mode' = "START"
            /\ barriers' = setup_barriers
            /\ start_cell' = None /\ goal_cell' = None
            /\ Solver' = None
            /\ solution' = <<>>
            /\ ~add_barrier' /\ ~del_barrier'
       /\ (/\ mode \notin {"SOLVED", "FAILED"}
           /\ \/ KeyDown("K_RETURN")
              \/ \E p \in MousePts :
                    ~InGridRect(p) /\ LeftClickAt(p, {"ENTER"}))
            => UNCHANGED vars
    ]_vars

\* A failed run with painted cells, an armed paint drag and the solution of
\* an earlier run still stored: a full reset here has all of it to clear.
C9_Witness ==
    /\ mode = "FAILED" /\ solution = PATH /\ add_barrier
    /\ barriers # setup_barriers

\* C10: whenever mode RUN is entered no solver instance exists, so that the
\* solver update drives in that run is the one it constructs then.
C10_FreshSolverEachRun ==
    [][(mode # "RUN" /\ mode' = "RUN") => Solver' = None]_vars

\* The solver a frame tick in RUN works on holds no result yet: it is built
\* in that tick or is still searching.
NoResultYet == Solver = None \/ Solver[1].solution = <<>>

\* The units of work the solver has done before a frame tick.
WorkDone == IF Solver = None THEN 0 ELSE Solver[1].n

\* C11: with the animate flag off, a frame tick that starts in mode RUN ends
\* in SOLVED or FAILED with the solver's solution non-pending, after at least
\* one evaluate() on a solver without a result; so a pending search is only
\* ever seen between handlers in mode RUN with the animate flag on.
C11_BlockingRun ==
    /\ []((Solver # None /\ Solver[1].solution = <<>>)
            => (mode = "RUN" /\ animate))
    /\ [][(mode = "RUN" /\ ~animate /\ FrameTick) =>
            /\ mode' \in {"SOLVED", "FAILED"}
            /\ Solver' # None /\ Solver'[1].solution # <<>>
            /\ NoResultYet => Solver'[1].n \in (WorkDone + 1)..MaxEval
       ]_vars

\* A run that ended with the animate flag off and took the solver's largest
\* number of evaluate() calls.
C11_Witness ==
    /\ mode \in {"SOLVED", "FAILED"} /\ ~animate
    /\ Solver # None /\ Solver[1].n = MaxEval

\* C12: with the animate flag on, a frame tick that starts in mode RUN calls
\* evaluate() once: a solver without a result (built in this tick or still
\* searching) has done exactly one more unit of work, a solver that already
\* holds a result is left as it is; and no step taken in mode RUN changes the
\* animate flag.
C12_OneStepPerFrame ==
    [][mode = "RUN" =>
        /\ animate' = animate
        /\ (animate /\ FrameTick) =>
             /\ Solver' # None
             /\ IF NoResultYet
                THEN Solver'[1].n = WorkDone + 1
                ELSE Solver' = Solver
    ]_vars

\* An animated run after its first frame: one unit of work done, the search
\* still pending.
C12_Witness ==
    /\ mode = "RUN" /\ animate /\ Solver # None
    /\ Solver[1].n = 1 /\ Solver[1].solution = <<>>

\* C13: a frame tick in mode RUN leaves mode RUN while the solver's solution
\* is pending; once it is not, mode becomes FAILED exactly when the solution
\* is the no-solution sentinel and otherwise SOLVED, with the stored solution
\* equal to the solver's path.
C13_RunOutcome ==
    [][(mode = "RUN" /\ FrameTick) =>
        /\ Solver' # None
        /\ Solver'[1].solution = <<>> => mode' = "RUN"
        /\ Solver'[1].solution # <<>> =>
             /\ mode' \in {"SOLVED", "FAILED"}
             /\ mode' = "FAILED" <=> Solver'[1].solution = NO_SOLUTION
             /\ mode' = "SOLVED" => solution' = Solver'[1].solution
    ]_vars

\* A solved run: the stored solution is the solver's path.
C13_Witness ==
    /\ mode = "SOLVED" /\ Solver # None
    /\ Solver[1].solution = PATH /\ solution = PATH

\* C14: a press of key 1, 2 or 3 in a mode other than RUN sets the piece type
\* to the option of that number (1 rook, 2 queen, 3 knight) whatever the piece
\* type was; in mode RUN it leaves the piece type unchanged.
C14_DigitSelectsPiece ==
    [][\A key \in {"K_1", "K_2", "K_3"} :
          KeyDown(key) =>
              piece_type' = IF mode # "RUN" THEN options[DigitOf(key)]
                                            ELSE piece_type
    ]_vars

\* toggle_piece() without index, in a mode that accepts it: a left click
\* outside the grid area with the pointer inside the MOVE text.
CycleStep ==
    /\ mode # "RUN"
    /\ \E p \in MousePts : ~InGridRect(p) /\ LeftClickAt(p, {"MOVE"})

\* The piece type after k cycles that start from the piece type p.
RECURSIVE Cycled(_, _)
Cycled(k, p) == IF k = 0 THEN p ELSE Cycled(k - 1, options[next_index(p) + 1])

\* C15 as stated: a cycle step moves the selection to the next option, and
\* from every selection N+1 cycles in a row, N the number of options, lead
\* back to it.
C15_CycleNPlusOne ==
    /\ [][CycleStep => piece_type' = Cycled(1, piece_type)]_vars
    /\ [](Cycled(Len(options) + 1, piece_type) = piece_type)

\* C15, amended: a cycle step moves the selection to the next option, and
\* from every selection N cycles in a row, N the number of options, lead back
\* to it, while fewer (at least one) do not.
C15_CycleN ==
    /\ [][CycleStep => piece_type' = Cycled(1, piece_type)]_vars
    /\ [](/\ Cycled(Len(options), piece_type) = piece_type
          /\ \A k \in 1..(Len(options) - 1) :
                Cycled(k, piece_type) # piece_type)

\* The last option is selected in a mode that accepts a cycle step: the next
\* cycle wraps around.
C15_Witness == piece_type = options[Len(options)] /\ mode # "RUN"

\* The current mode refuses the branch of the text k.
OutOfGate(k) ==
    IF k = "BARRIER" THEN mode # "BARRIER"
                     ELSE mode \notin {"SOLVED", "FAILED"}

\* A gated key pressed in a mode that refuses it.
GatedKeyOutOfGate ==
    \/ mode # "BARRIER" /\ KeyDown("K_SPACE")
    \/ mode \notin {"SOLVED", "FAILED"} /\ (KeyDown("K_RETURN") \/ KeyDown("K_i"))

\* A left click outside the grid area with the pointer inside the text k
\* alone, or inside the corner (10,1) that the BARRIER and ENTER texts share
\* (lines 92-93).
GatedZoneClick(k) ==
    \E p \in MousePts, z \in {{k}, {"BARRIER", "ENTER"}} :
        ~InGridRect(p) /\ k \in z /\ LeftClickAt(p, z)

\* C16 as stated: the run trigger (space, a click inside the BARRIER text) in
\* a mode other than BARRIER, and the reset triggers (Return, i, a click
\* inside the ENTER or RESET text) in a mode other than SOLVED and FAILED,
\* change nothing.
C16_GatedTriggersAreNoOps ==
    [][(\/ GatedKeyOutOfGate
        \/ mode # "BARRIER" /\ GatedZoneClick("BARRIER")
        \/ /\ mode \notin {"SOLVED", "FAILED"}
           /\ GatedZoneClick("ENTER") \/ GatedZoneClick("RESET"))
       => UNCHANGED vars]_vars

\* C16, amended: a gated key pressed in a mode that refuses it changes
\* nothing, and neither does a left click outside the grid area whose pointer
\* is inside gated texts only, all of them refused by the current mode.
C16_RefusedTriggersAreNoOps ==
    [][(\/ GatedKeyOutOfGate
        \/ \E p \in MousePts, z \in ZoneSets :
              /\ ~InGridRect(p) /\ z # {}
              /\ z \subseteq {"BARRIER", "ENTER", "RESET"}
              /\ \A k \in z : OutOfGate(k)
              /\ LeftClickAt(p, z))
       => UNCHANGED vars]_vars

\* A state in which a refused full reset would have had work to do: mode
\* START with a goal, a barrier drawn by hand and a kept solver.
C16_Witness ==
    /\ mode = "START" /\ goal_cell # None /\ Solver # None
    /\ barriers # setup_barriers

\* C17: under fair frame ticks, and with a solver whose solution is set after
\* at most MaxEval evaluate() calls, every state in mode RUN is followed by a
\* state in mode SOLVED or FAILED, whatever the animate flag is and whatever
\* events come between the ticks.
C17_RunTerminates == (mode = "RUN") ~> (mode \in {"SOLVED", "FAILED"})

\* An animated run that needed the solver's largest number of frames and
\* found no path.
C17_Witness ==
    /\ mode = "FAILED" /\ animate
    /\ Solver # None /\ Solver[1].n = MaxEval /\ Solver[1].solution = NO_SOLUTION

\* C18: a frame tick with the pointer at p changes barriers only in mode
\* BARRIER with a flag armed, p inside the grid area and the hovered cell
\* neither start nor goal: it then adds the hovered cell if painting is
\* armed and removes it if only erasing is armed; every other tick leaves
\* barriers as it is.
C18_TickPaintsOrErases ==
    [][\A p \in MousePts :
          update(p) =>
            LET t == get_target(p) IN
            IF /\ mode = "BARRIER" /\ (add_barrier \/ del_barrier)
               /\ InGridRect(p) /\ t # start_cell /\ t # goal_cell
            THEN IF add_barrier
                 THEN barriers' = barriers \cup {t}
                 ELSE barriers' = barriers \ {t}
            ELSE barriers' = barriers
    ]_vars

\* Both flags are armed in mode BARRIER and a cell has been painted.
C18_Witness ==
    /\ mode = "BARRIER" /\ add_barrier /\ del_barrier
    /\ barriers # setup_barriers

\* Every step that arms the painting flag is a MOUSEBUTTONDOWN with the left
\* button pressed, in mode BARRIER, with the pointer inside the grid area.
PaintingArmedInGrid ==
    (~add_barrier /\ add_barrier') =>
        /\ mode = "BARRIER"
        /\ \E p \in MousePts, z \in ZoneSets : LeftClickAt(p, z)
        /\ \A p \in MousePts, z \in ZoneSets :
              LeftClickAt(p, z) => InGridRect(p)

\* MOUSEBUTTONUP leaves both flags disarmed.
ButtonUpDisarms == (add_barrier' \/ del_barrier') => ~MouseButtonUp

\* C19 as stated: the painting flag is armed only by a left button-down
\* inside the grid area in mode BARRIER, the erasing flag only by a right
\* button-down inside the grid area in mode BARRIER on a cell that is neither
\* start nor goal, and a button-up disarms both in every mode.
C19_ArmedInsideGridOnly ==
    [][/\ PaintingArmedInGrid
       /\ (~del_barrier /\ del_barrier') =>
             /\ mode = "BARRIER"
             /\ \E p \in MousePts : RightClickAt(p)
             /\ \A p \in MousePts :
                   RightClickAt(p) =>
                       /\ InGridRect(p)
                       /\ get_target(p) \notin {start_cell, goal_cell}
       /\ ButtonUpDisarms
    ]_vars

\* C19, amended: as stated for the painting flag and the button-up; the
\* erasing flag is armed only by a right button-down in mode BARRIER whose
\* target cell is neither start nor goal, wherever the pointer is.
C19_ErasingArmedAnywhere ==
    [][/\ PaintingArmedInGrid
       /\ (~del_barrier /\ del_barrier') =>
             /\ mode = "BARRIER"
             /\ \E p \in MousePts : RightClickAt(p)
             /\ \A p \in MousePts :
                   RightClickAt(p) =>
                       get_target(p) \notin {start_cell, goal_cell}
       /\ ButtonUpDisarms
    ]_vars

\* Only the erasing flag is armed, in mode BARRIER, with nothing painted.
C19_Witness ==
    /\ mode = "BARRIER" /\ del_barrier /\ ~add_barrier
    /\ barriers = setup_barriers

\* C20: in mode START the start cell is undefined; in mode GOAL the start
\* cell is defined and the goal cell is undefined; in modes BARRIER, RUN,
\* SOLVED and FAILED both are defined; so the step that constructs the solver
\* passes it a defined start and a defined goal.
C20_ModeDeterminesCells ==
    /\ [](/\ mode = "START" => start_cell = None
          /\ mode = "GOAL" => (start_cell # None /\ goal_cell = None)
          /\ mode \in {"BARRIER", "RUN", "SOLVED", "FAILED"} =>
                (start_cell # None /\ goal_cell # None))
    /\ [][(Solver = None /\ Solver' # None) =>
             (mode = "RUN" /\ FrameTick /\ start_cell # None /\ goal_cell # None)
       ]_vars

\* A run is about to construct its solver: mode RUN, no solver yet, walls
\* drawn by hand.
C20_Witness ==
    /\ mode = "RUN" /\ Solver = None /\ barriers # setup_barriers
    /\ start_cell # None /\ goal_cell # None

====
